---- MODULE Spec2Model ----
(***************************************************************************)
(* One pass of BegetMailController.process_incoming_emails                 *)
(* (src/engine/services/beget_mail_controller/core.py) over the helpers of *)
(* BaseMailController (src/engine/services/base_mail_controller/core.py).  *)
(*                                                                         *)
(* The pass is a sequential program; pc is its position.  Every call to a  *)
(* collaborator (imaplib, smtplib, the email parser, the notification      *)
(* sink) is one step whose outcome - return or raise, and the status it    *)
(* returns - is chosen nondeterministically.  Strings are sequences of     *)
(* one-character strings so that lower(), parseaddr() and fnmatch() are    *)
(* computed, not assumed.                                                  *)
(***************************************************************************)
EXTENDS Integers, Sequences, FiniteSets, TLC

\* Largest number of UNSEEN messages in the mailbox.
MaxMsgs == 2

\* ---------------------------------------------------------------- strings

LowerMap ==
    ("A" :> "a") @@ ("E" :> "e") @@ ("I" :> "i") @@ ("O" :> "o") @@
    ("P" :> "p") @@ ("X" :> "x") @@ ("Z" :> "z")

\* str.lower()
Lower(s) ==
    [i \in DOMAIN s |-> IF s[i] \in DOMAIN LowerMap THEN LowerMap[s[i]] ELSE s[i]]

RECURSIVE IndexOf(_, _, _)
IndexOf(s, c, i) ==
    IF i > Len(s) THEN 0
    ELSE IF s[i] = c THEN i
    ELSE IndexOf(s, c, i + 1)

\* email.utils.parseaddr(h)[1]: the bare address of "Name <addr>" or "addr"
parseaddr(h) ==
    LET lt == IndexOf(h, "<", 1)
        gt == IndexOf(h, ">", 1)
    IN  IF lt > 0 /\ gt > lt THEN SubSeq(h, lt + 1, gt - 1) ELSE h

\* fnmatch.fnmatch(name, pat) for patterns built from literals, * and ?
RECURSIVE fnmatch(_, _)
fnmatch(name, pat) ==
    IF pat = <<>> THEN name = <<>>
    ELSE IF Head(pat) = "*"
         THEN fnmatch(name, Tail(pat)) \/ (name # <<>> /\ fnmatch(Tail(name), pat))
         ELSE /\ name # <<>>
              /\ (Head(pat) = "?" \/ Head(pat) = Head(name))
              /\ fnmatch(Tail(name), Tail(pat))

\* ------------------------------------------------------- the input domain

\* MIME parts as extract_attachments sees them: is_attachment() and filename.
ZipAttachment == << [att |-> TRUE, fn |-> <<"A", ".", "Z", "I", "P">>] >>

TxtAttachment == << [att |-> TRUE, fn |-> <<"b", ".", "t", "x", "t">>] >>

NoAttachment ==
    << [att |-> FALSE, fn |-> <<"a", ".", "z", "i", "p">>],
       [att |-> TRUE, fn |-> <<>>] >>

\* The messages a mailbox may hold: From header and parts.
Messages ==
    { [from |-> <<"E", "@", "x">>, parts |-> ZipAttachment],
      [from |-> <<"N", " ", "<", "e", "@", "X", ">">>, parts |-> TxtAttachment],
      [from |-> <<"o", "@", "x">>, parts |-> ZipAttachment],
      [from |-> <<"E", "@", "x">>, parts |-> NoAttachment] }

RECURSIVE SeqsUpTo(_, _)
SeqsUpTo(S, n) ==
    IF n = 0 THEN { <<>> }
    ELSE LET shorter == SeqsUpTo(S, n - 1)
         IN  shorter \cup { Append(s, x) : s \in { t \in shorter : Len(t) = n - 1 }, x \in S }

\* EXPECTED_SENDER: empty means no filter.
SenderFilters == { <<>>, <<"e", "@", "x">> }

\* ATTACHMENT_FILENAME_PATTERN: empty means every attachment.
Patterns == { <<>>, <<"*", ".", "Z", "i", "p">> }

UidRange == 1..MaxMsgs

\* ------------------------------------------------ message content

\* Largest number of parts directly under a multipart root.
MaxParts == 2

Leaf(ctype, content) == [ctype |-> ctype, content |-> content, parts |-> <<>>]

Multipart(ctype, parts) == [ctype |-> ctype, content |-> "", parts |-> parts]

TextLeaves ==
    { Leaf("text/plain", "P"), Leaf("text/plain", ""), Leaf("text/html", "H"),
      Leaf("text/html", "G"), Leaf("text/html", "") }

Leaves == TextLeaves \cup { Leaf("application/zip", "Z") }

NestedLeaves == { Leaf("text/plain", "P"), Leaf("text/html", "H"), Leaf("text/html", "") }

Alternatives ==
    { Multipart("multipart/alternative", <<a, b>>) : a \in NestedLeaves, b \in NestedLeaves }

\* MIME trees: a single part, or a multipart root over parts and alternatives
MimeTrees ==
    Leaves \cup
    { Multipart("multipart/mixed", ps) : ps \in SeqsUpTo(Leaves \cup Alternatives, MaxParts) }

\* the Subject headers of a message: none, an empty one, or a text
SubjectHeaders == { <<>>, <<"">>, <<"Report">> }

ParsedMessages == [subject : SubjectHeaders, root : MimeTrees]

\* the message of a state in which no forward is being composed
NoMessage == [subject |-> <<>>, root |-> Leaf("text/plain", "")]

\* Notifications: (kind, uid); uid 0 is a notification about the pass.
NotifKinds ==
    { "imap_failed", "no_messages", "no_attachment", "smtp_failed",
      "success", "failed", "critical" }

PassOps == { "imap_connect", "select", "search", "close", "logout" }

MsgOps == { "fetch", "process", "smtp_connect", "send", "store", "quit" }

VARIABLES
    pc,                 \* position in process_incoming_emails
    inbox,              \* the UNSEEN messages of the mailbox, by sequence number
    expected_sender,    \* self.expected_sender
    attachment_pattern, \* self.attachment_pattern
    set_unread,         \* self.set_unread
    same_subject,       \* self.same_subject
    same_body,          \* self.same_body
    parsed_msg,         \* msg of the loop body: the parsed message
    original_subject,   \* original_subject of the loop body, as passed to the send
    original_body,      \* original_body of the loop body, as passed to the send
    final_subject,      \* Subject of the outbound message
    final_body,         \* content of the outbound message
    uids,               \* result of the UNSEEN search
    fetchIdx,           \* position of the generator's for loop over uids
    fetchOk,            \* uids whose fetch returned OK with a message body
    uids_and_emails,    \* list(fetch_unread_messages(...)): the candidates
    idx,                \* position of the for loop over uids_and_emails
    attachments,        \* attachments of the candidate being processed
    pending,            \* an exception is in flight through a finally clause
    escaped,            \* an exception left process_incoming_emails
    imapOpen,           \* mailbox connections established and not logged out
    smtpOpen,           \* transport connections established and not quit
    seen,               \* \Seen flag of each message on the server
    sent,               \* messages whose send_message returned
    sendFailed,         \* messages whose send_message raised
    storeOp,            \* per message, the flag operations issued, in order
    passOps,            \* how often each mailbox-level call was made
    msgOps,             \* how often each per-message call was made
    notifs,             \* how often each (kind, uid) notification was issued
    searchResult,       \* "none", "failed", "empty" or "found"
    imapResult,         \* "none", "ok", "connect_failed" or "login_failed"
    sinkErrors,         \* calls of send_telegram_alert that raised
    critUid             \* candidate in progress when the outer handler ran

vars ==
    << pc, inbox, expected_sender, attachment_pattern, set_unread,
       same_subject, same_body, parsed_msg, original_subject, original_body,
       final_subject, final_body,
       uids, fetchIdx, fetchOk, uids_and_emails, idx, attachments, pending,
       escaped, imapOpen, smtpOpen, seen, sent, sendFailed, storeOp, passOps, msgOps,
       notifs, searchResult, imapResult, sinkErrors, critUid >>

config ==
    << inbox, expected_sender, attachment_pattern, set_unread, same_subject,
       same_body >>

\* what the composition of one outbound message reads and writes
outbound ==
    << parsed_msg, original_subject, original_body, final_subject, final_body >>

Init ==
    /\ pc = "start"
    /\ inbox \in SeqsUpTo(Messages, MaxMsgs)
    /\ expected_sender \in SenderFilters
    /\ attachment_pattern \in Patterns
    /\ set_unread \in BOOLEAN
    /\ same_subject = TRUE
    /\ same_body = TRUE
    /\ parsed_msg = NoMessage
    /\ original_subject = <<>>
    /\ original_body = <<>>
    /\ final_subject = <<>>
    /\ final_body = <<>>
    /\ uids = <<>>
    /\ fetchIdx = 0
    /\ fetchOk = {}
    /\ uids_and_emails = <<>>
    /\ idx = 0
    /\ attachments = <<>>
    /\ pending = FALSE
    /\ escaped = FALSE
    /\ imapOpen = 0
    /\ smtpOpen = 0
    /\ seen = [u \in UidRange |-> FALSE]
    /\ sent = {}
    /\ sendFailed = {}
    /\ storeOp = [u \in UidRange |-> <<>>]
    /\ passOps = [o \in PassOps |-> 0]
    /\ msgOps = [o \in MsgOps, u \in UidRange |-> 0]
    /\ notifs = [k \in NotifKinds, u \in 0..MaxMsgs |-> 0]
    /\ searchResult = "none"
    /\ imapResult = "none"
    /\ sinkErrors = 0
    /\ critUid = 0

\* ---------------------------------------------------------------- helpers

Outcomes == { "return", "raise" }

\* self.send_telegram_alert(text): one more notification of that kind
send_telegram_alert(kind, u) == [notifs EXCEPT ![kind, u] = @ + 1]

CountOp(op, u) == [msgOps EXCEPT ![op, u] = @ + 1]

CountPassOp(op) == [passOps EXCEPT ![op] = @ + 1]

\* extract_attachments(raw_email, target_filename_pattern)
RECURSIVE extract_attachments(_, _)
extract_attachments(parts, pattern) ==
    IF parts = <<>> THEN <<>>
    ELSE LET part == Head(parts)
             rest == extract_attachments(Tail(parts), pattern)
         IN  IF ~part.att THEN rest
             ELSE IF part.fn = <<>> THEN rest
             ELSE IF pattern # <<>> /\ ~fnmatch(Lower(part.fn), Lower(pattern)) THEN rest
             ELSE <<part.fn>> \o rest

\* PassesSenderFilter with the comparison the wrong way round
PassesSenderFilter_inverted(msg, sender_filter) ==
    \/ sender_filter = <<>>
    \/ Lower(parseaddr(msg.from)) # Lower(sender_filter)

\* the sender filter of fetch_unread_messages: TRUE when the message is yielded
PassesSenderFilter(msg, sender_filter) ==
    \/ sender_filter = <<>>
    \/ Lower(parseaddr(msg.from)) = Lower(sender_filter)

\* the candidate the for loop of process_incoming_emails is at
Cur == uids_and_emails[idx]

\* the for loop moves to the next candidate, or ends and the finally runs
NextCandidate ==
    /\ idx' = idx + 1
    /\ pc' = IF idx + 1 > Len(uids_and_emails) THEN "close" ELSE "process"

\* an exception leaves the for loop and reaches "except Exception" (line 150)
ToCritical(u) ==
    /\ pc' = "critical"
    /\ critUid' = u

\* --------------------------------------------------- mailbox connection

\* connect_imap and its call: IMAP4_SSL(host, port), then login
connect_imap ==
    /\ pc = "start"
    /\ passOps' = CountPassOp("imap_connect")
    /\ \E r \in { "ok", "connect_failed", "login_failed" } :
          /\ imapResult' = r
          /\ imapOpen' = IF r = "connect_failed" THEN imapOpen ELSE imapOpen + 1
          /\ pc' = IF r = "ok" THEN "select" ELSE "alert_imap_failed"
    /\ UNCHANGED << config, outbound, uids, fetchIdx, uids_and_emails, idx, attachments,
                    pending, escaped, smtpOpen, seen, sent, sendFailed, storeOp,
                    msgOps, notifs, searchResult, critUid, sinkErrors,
                    fetchOk >>

\* alert_imap_failed without the return after the alert
alert_imap_failed_without_return ==
    /\ pc = "alert_imap_failed"
    /\ notifs' = send_telegram_alert("imap_failed", 0)
    /\ \E r \in Outcomes :
          /\ escaped' = (r = "raise")
          /\ sinkErrors' = IF r = "raise" THEN sinkErrors + 1 ELSE sinkErrors
          /\ pc' = IF r = "raise" THEN "done" ELSE "select"
    /\ UNCHANGED << config, outbound, uids, fetchIdx, uids_and_emails, idx, attachments,
                    pending, imapOpen, smtpOpen, seen, sent, sendFailed, storeOp,
                    passOps, msgOps, searchResult, critUid, imapResult,
                    fetchOk >>

\* except branch of the mailbox connect: alert and return
alert_imap_failed ==
    /\ pc = "alert_imap_failed"
    /\ notifs' = send_telegram_alert("imap_failed", 0)
    /\ \E r \in Outcomes :
          /\ escaped' = (r = "raise")
          /\ sinkErrors' = IF r = "raise" THEN sinkErrors + 1 ELSE sinkErrors
    /\ pc' = "done"
    /\ UNCHANGED << config, outbound, uids, fetchIdx, uids_and_emails, idx, attachments,
                    pending, imapOpen, smtpOpen, seen, sent, sendFailed, storeOp,
                    passOps, msgOps, searchResult, critUid, imapResult,
                    fetchOk >>

\* ------------------------------------------------ fetch_unread_messages

\* mail.select("INBOX"): a status other than OK or an exception ends the generator
select_inbox ==
    /\ pc = "select"
    /\ passOps' = CountPassOp("select")
    /\ \E r \in { "OK", "NO", "raise" } :
          /\ pc' = IF r = "OK" THEN "search" ELSE "listed"
          /\ searchResult' = IF r = "OK" THEN searchResult ELSE "failed"
    /\ UNCHANGED << config, outbound, uids, fetchIdx, uids_and_emails, idx, attachments,
                    pending, escaped, imapOpen, smtpOpen, seen, sent, sendFailed,
                    storeOp, msgOps, notifs, critUid, imapResult, sinkErrors,
                    fetchOk >>

\* mail.search(None, "UNSEEN"): the sequence numbers of the unseen messages
search_unseen ==
    /\ pc = "search"
    /\ passOps' = CountPassOp("search")
    /\ \E r \in { "OK", "NO", "raise" } :
          IF r = "OK"
          THEN /\ uids' = [i \in 1..Len(inbox) |-> i]
               /\ searchResult' = IF inbox = <<>> THEN "empty" ELSE "found"
               /\ fetchIdx' = IF inbox = <<>> THEN fetchIdx ELSE 1
               /\ pc' = IF inbox = <<>> THEN "listed" ELSE "fetch"
          ELSE /\ searchResult' = "failed"
               /\ pc' = "listed"
               /\ UNCHANGED << uids, fetchIdx >>
    /\ UNCHANGED << config, outbound, uids_and_emails, idx, attachments, pending, escaped,
                    imapOpen, smtpOpen, seen, sent, sendFailed, storeOp, msgOps,
                    notifs, critUid, imapResult, sinkErrors,
                    fetchOk >>

\* fetch_message marking every message it yields as read
fetch_message_marking_read ==
    /\ pc = "fetch"
    /\ LET u == uids[fetchIdx] IN
       /\ \E r \in { "OK", "NO", "no_body", "raise", "parse_raise" } :
             LET yielded == r = "OK" /\ PassesSenderFilter(inbox[u], expected_sender) IN
             /\ r = "parse_raise" => expected_sender # <<>>
             /\ seen' = IF r \in { "OK", "parse_raise" }
                        THEN [seen EXCEPT ![u] = TRUE] ELSE seen
             /\ fetchOk' = IF r = "OK" THEN fetchOk \cup { u } ELSE fetchOk
             /\ uids_and_emails' =
                   IF yielded THEN Append(uids_and_emails, u) ELSE uids_and_emails
             /\ msgOps' = IF yielded
                          THEN [msgOps EXCEPT !["fetch", u] = @ + 1, !["store", u] = @ + 1]
                          ELSE CountOp("fetch", u)
             /\ storeOp' = IF yielded
                           THEN [storeOp EXCEPT ![u] = Append(@, "+FLAGS")]
                           ELSE storeOp
       /\ fetchIdx' = fetchIdx + 1
       /\ pc' = IF fetchIdx + 1 > Len(uids) THEN "listed" ELSE "fetch"
    /\ UNCHANGED << config, outbound, uids, idx, attachments, pending, escaped, imapOpen,
                    smtpOpen, sent, sendFailed, passOps, notifs,
                    searchResult, critUid, imapResult, sinkErrors >>

\* fetch_message leaving the loop at the first message it cannot yield
fetch_message_aborting ==
    /\ pc = "fetch"
    /\ LET u == uids[fetchIdx] IN
       /\ msgOps' = CountOp("fetch", u)
       /\ \E r \in { "OK", "NO", "no_body", "raise", "parse_raise" } :
             /\ r = "parse_raise" => expected_sender # <<>>
             /\ seen' = IF r \in { "OK", "parse_raise" }
                        THEN [seen EXCEPT ![u] = TRUE] ELSE seen
             /\ fetchOk' = IF r = "OK" THEN fetchOk \cup { u } ELSE fetchOk
             /\ uids_and_emails' =
                   IF r = "OK" /\ PassesSenderFilter(inbox[u], expected_sender)
                   THEN Append(uids_and_emails, u) ELSE uids_and_emails
             /\ pc' = IF fetchIdx + 1 > Len(uids) \/ r # "OK" THEN "listed" ELSE "fetch"
       /\ fetchIdx' = fetchIdx + 1
    /\ UNCHANGED << config, outbound, uids, idx, attachments, pending, escaped, imapOpen,
                    smtpOpen, sent, sendFailed, storeOp, passOps, notifs,
                    searchResult, critUid, imapResult, sinkErrors >>

\* one round of "for uid in uids": fetch, sender filter, yield or skip.
\* A fetch of RFC822 that returns the message sets its \Seen flag on the server.
fetch_message ==
    /\ pc = "fetch"
    /\ LET u == uids[fetchIdx] IN
       /\ msgOps' = CountOp("fetch", u)
       /\ \E r \in { "OK", "NO", "no_body", "raise", "parse_raise" } :
             /\ r = "parse_raise" => expected_sender # <<>>
             /\ seen' = IF r \in { "OK", "parse_raise" }
                        THEN [seen EXCEPT ![u] = TRUE] ELSE seen
             /\ fetchOk' = IF r = "OK" THEN fetchOk \cup { u } ELSE fetchOk
             /\ uids_and_emails' =
                   IF r = "OK" /\ PassesSenderFilter(inbox[u], expected_sender)
                   THEN Append(uids_and_emails, u) ELSE uids_and_emails
       /\ fetchIdx' = fetchIdx + 1
       /\ pc' = IF fetchIdx + 1 > Len(uids) THEN "listed" ELSE "fetch"
    /\ UNCHANGED << config, outbound, uids, idx, attachments, pending, escaped, imapOpen,
                    smtpOpen, sent, sendFailed, storeOp, passOps, notifs,
                    searchResult, critUid, imapResult, sinkErrors >>

\* ---------------------------------------------- process_incoming_emails

\* check_candidates returning on an empty list without the alert
check_candidates_silent ==
    /\ pc = "listed"
    /\ IF uids_and_emails = <<>>
       THEN pc' = "close" /\ idx' = idx
       ELSE pc' = "process" /\ idx' = 1
    /\ UNCHANGED << config, outbound, uids, fetchIdx, uids_and_emails, attachments, pending,
                    escaped, imapOpen, smtpOpen, seen, sent, sendFailed, storeOp,
                    passOps, msgOps, notifs, searchResult, critUid, imapResult,
                    sinkErrors,
                    fetchOk >>

\* "if not uids_and_emails": alert and return, or enter the for loop
check_candidates ==
    /\ pc = "listed"
    /\ IF uids_and_emails = <<>>
       THEN pc' = "alert_no_messages" /\ idx' = idx
       ELSE pc' = "process" /\ idx' = 1
    /\ UNCHANGED << config, outbound, uids, fetchIdx, uids_and_emails, attachments, pending,
                    escaped, imapOpen, smtpOpen, seen, sent, sendFailed, storeOp,
                    passOps, msgOps, notifs, searchResult, critUid, imapResult, sinkErrors,
                    fetchOk >>

\* alert_no_messages with the return outside the try of the pass
alert_no_messages_returning_early ==
    /\ pc = "alert_no_messages"
    /\ notifs' = send_telegram_alert("no_messages", 0)
    /\ \E r \in Outcomes :
          IF r = "return" THEN pc' = "done" /\ critUid' = critUid /\ sinkErrors' = sinkErrors
          ELSE ToCritical(0) /\ sinkErrors' = sinkErrors + 1
    /\ UNCHANGED << config, outbound, uids, fetchIdx, uids_and_emails, idx, attachments,
                    pending, escaped, imapOpen, smtpOpen, seen, sent, sendFailed,
                    storeOp, passOps, msgOps, searchResult, imapResult,
                    fetchOk >>

\* the "no new messages" alert, then return through the finally clause
alert_no_messages ==
    /\ pc = "alert_no_messages"
    /\ notifs' = send_telegram_alert("no_messages", 0)
    /\ \E r \in Outcomes :
          IF r = "return" THEN pc' = "close" /\ critUid' = critUid /\ sinkErrors' = sinkErrors
          ELSE ToCritical(0) /\ sinkErrors' = sinkErrors + 1
    /\ UNCHANGED << config, outbound, uids, fetchIdx, uids_and_emails, idx, attachments,
                    pending, escaped, imapOpen, smtpOpen, seen, sent, sendFailed,
                    storeOp, passOps, msgOps, searchResult, imapResult,
                    fetchOk >>

\* head of the loop body: parse, subject, body, extract_attachments
process_candidate ==
    /\ pc = "process"
    /\ msgOps' = CountOp("process", Cur)
    /\ \E r \in Outcomes :
          IF r = "raise"
          THEN ToCritical(Cur) /\ attachments' = attachments
          ELSE LET found == extract_attachments(inbox[Cur].parts, attachment_pattern)
               IN  /\ attachments' = found
                   /\ pc' = IF found = <<>> THEN "alert_no_attachment" ELSE "smtp_connect"
                   /\ critUid' = critUid
    /\ UNCHANGED << config, outbound, uids, fetchIdx, uids_and_emails, idx, pending, escaped,
                    imapOpen, smtpOpen, seen, sent, sendFailed, storeOp, passOps,
                    notifs, searchResult, imapResult, sinkErrors,
                    fetchOk >>

\* "if not attachments": alert and continue
alert_no_attachment ==
    /\ pc = "alert_no_attachment"
    /\ notifs' = send_telegram_alert("no_attachment", Cur)
    /\ \E r \in Outcomes :
          IF r = "return" THEN NextCandidate /\ critUid' = critUid /\ sinkErrors' = sinkErrors
          ELSE ToCritical(Cur) /\ idx' = idx /\ sinkErrors' = sinkErrors + 1
    /\ UNCHANGED << config, outbound, uids, fetchIdx, uids_and_emails, attachments, pending,
                    escaped, imapOpen, smtpOpen, seen, sent, sendFailed, storeOp,
                    passOps, msgOps, searchResult, imapResult,
                    fetchOk >>

\* ------------------------------------------------------------ transport

\* connect_smtp and its call: SMTP_SSL on port 465, else SMTP and starttls;
\* then login.  Once the constructor returned the connection is established,
\* and "login_failed" is starttls or login raising on it.
connect_smtp ==
    /\ pc = "smtp_connect"
    /\ msgOps' = CountOp("smtp_connect", Cur)
    /\ \E r \in { "ok", "connect_failed", "login_failed" } :
          /\ smtpOpen' = IF r = "connect_failed" THEN smtpOpen ELSE smtpOpen + 1
          /\ pc' = IF r = "ok" THEN "send" ELSE "alert_smtp_failed"
    /\ UNCHANGED << config, outbound, uids, fetchIdx, uids_and_emails, idx, attachments,
                    pending, escaped, imapOpen, seen, sent, sendFailed, storeOp,
                    passOps, notifs, searchResult, critUid, imapResult, sinkErrors,
                    fetchOk >>

\* except branch of the transport connect: alert and continue
alert_smtp_failed ==
    /\ pc = "alert_smtp_failed"
    /\ notifs' = send_telegram_alert("smtp_failed", Cur)
    /\ \E r \in Outcomes :
          IF r = "return" THEN NextCandidate /\ critUid' = critUid /\ sinkErrors' = sinkErrors
          ELSE ToCritical(Cur) /\ idx' = idx /\ sinkErrors' = sinkErrors + 1
    /\ UNCHANGED << config, outbound, uids, fetchIdx, uids_and_emails, attachments, pending,
                    escaped, imapOpen, smtpOpen, seen, sent, sendFailed, storeOp,
                    passOps, msgOps, searchResult, imapResult,
                    fetchOk >>

\* send_email_with_attachment with the exception of the send swallowed
send_email_swallowing_errors ==
    /\ pc = "send"
    /\ msgOps' = CountOp("send", Cur)
    /\ \E r \in Outcomes :
          /\ sent' = IF r = "return" THEN sent \cup { Cur } ELSE sent
          /\ sendFailed' = IF r = "raise" THEN sendFailed \cup { Cur } ELSE sendFailed
    /\ pc' = "alert_success"
    /\ UNCHANGED << config, outbound, uids, fetchIdx, uids_and_emails, idx, attachments,
                    pending, escaped, imapOpen, smtpOpen, seen, storeOp, passOps,
                    notifs, searchResult, critUid, imapResult, sinkErrors,
                    fetchOk >>

\* send_email_with_attachment: build the message, smtp_conn.send_message
send_email_with_attachment ==
    /\ pc = "send"
    /\ msgOps' = CountOp("send", Cur)
    /\ \E r \in Outcomes :
          IF r = "return"
          THEN /\ sent' = sent \cup { Cur }
               /\ sendFailed' = sendFailed
               /\ pc' = "alert_success"
          ELSE /\ sendFailed' = sendFailed \cup { Cur }
               /\ sent' = sent
               /\ pc' = "alert_failed"
    /\ UNCHANGED << config, outbound, uids, fetchIdx, uids_and_emails, idx, attachments,
                    pending, escaped, imapOpen, smtpOpen, seen, storeOp, passOps,
                    notifs, searchResult, critUid, imapResult, sinkErrors,
                    fetchOk >>

\* the success alert, inside the try of the send
alert_success ==
    /\ pc = "alert_success"
    /\ notifs' = send_telegram_alert("success", Cur)
    /\ \E r \in Outcomes :
          /\ pc' = IF r = "return" THEN "store" ELSE "alert_failed"
          /\ sinkErrors' = IF r = "raise" THEN sinkErrors + 1 ELSE sinkErrors
    /\ UNCHANGED << config, outbound, uids, fetchIdx, uids_and_emails, idx, attachments,
                    pending, escaped, imapOpen, smtpOpen, seen, sent, sendFailed,
                    storeOp, passOps, msgOps, searchResult, critUid, imapResult,
                    fetchOk >>

\* the flag operation the set_unread policy asks for
FlagOp == IF set_unread THEN "-FLAGS" ELSE "+FLAGS"

\* imap_conn.store(uid, FlagOp, "\\Seen"); the returned status is not looked at
store_flag ==
    /\ pc = "store"
    /\ msgOps' = CountOp("store", Cur)
    /\ storeOp' = [storeOp EXCEPT ![Cur] = Append(@, FlagOp)]
    /\ \E r \in { "OK", "NO", "raise" } :
          /\ seen' = IF r = "OK" THEN [seen EXCEPT ![Cur] = (FlagOp = "+FLAGS")] ELSE seen
          /\ pc' = IF r = "raise" THEN "alert_failed" ELSE "quit"
    /\ UNCHANGED << config, outbound, uids, fetchIdx, uids_and_emails, idx, attachments,
                    pending, escaped, imapOpen, smtpOpen, sent, sendFailed, passOps,
                    notifs, searchResult, critUid, imapResult, sinkErrors,
                    fetchOk >>

\* alert_failed going back to the send after the alert
alert_failed_retrying ==
    /\ pc = "alert_failed"
    /\ notifs' = send_telegram_alert("failed", Cur)
    /\ \E r \in Outcomes :
          /\ pending' = (r = "raise")
          /\ sinkErrors' = IF r = "raise" THEN sinkErrors + 1 ELSE sinkErrors
          /\ pc' = IF r = "raise" THEN "quit" ELSE "send"
    /\ UNCHANGED << config, outbound, uids, fetchIdx, uids_and_emails, idx, attachments,
                    escaped, imapOpen, smtpOpen, seen, sent, sendFailed, storeOp,
                    passOps, msgOps, searchResult, critUid, imapResult,
                    fetchOk >>

\* "except Exception" of the send block: the failure alert
alert_failed ==
    /\ pc = "alert_failed"
    /\ notifs' = send_telegram_alert("failed", Cur)
    /\ \E r \in Outcomes :
          /\ pending' = (r = "raise")
          /\ sinkErrors' = IF r = "raise" THEN sinkErrors + 1 ELSE sinkErrors
    /\ pc' = "quit"
    /\ UNCHANGED << config, outbound, uids, fetchIdx, uids_and_emails, idx, attachments,
                    escaped, imapOpen, smtpOpen, seen, sent, sendFailed, storeOp,
                    passOps, msgOps, searchResult, critUid, imapResult,
                    fetchOk >>

\* "finally: smtp_conn.quit()"; an exception in flight, or one raised by
\* quit, then leaves the for loop
smtp_quit ==
    /\ pc = "quit"
    /\ msgOps' = CountOp("quit", Cur)
    /\ smtpOpen' = smtpOpen - 1
    /\ pending' = FALSE
    /\ \E r \in Outcomes :
          IF r = "return" /\ ~pending THEN NextCandidate /\ critUid' = critUid
          ELSE ToCritical(Cur) /\ idx' = idx
    /\ UNCHANGED << config, outbound, uids, fetchIdx, uids_and_emails, attachments, escaped,
                    imapOpen, seen, sent, sendFailed, storeOp, passOps, notifs,
                    searchResult, imapResult, sinkErrors,
                    fetchOk >>

\* ------------------------------------------------- end of the pass

\* alert_critical with the mailbox release left out of the exception path
alert_critical_without_finally ==
    /\ pc = "critical"
    /\ notifs' = send_telegram_alert("critical", critUid)
    /\ \E r \in Outcomes :
          /\ escaped' = (r = "raise")
          /\ sinkErrors' = IF r = "raise" THEN sinkErrors + 1 ELSE sinkErrors
    /\ pc' = "done"
    /\ UNCHANGED << config, outbound, uids, fetchIdx, uids_and_emails, idx, attachments,
                    pending, imapOpen, smtpOpen, seen, sent, sendFailed, storeOp,
                    passOps, msgOps, searchResult, critUid, imapResult,
                    fetchOk >>

\* the outer "except Exception": the critical alert
alert_critical ==
    /\ pc = "critical"
    /\ notifs' = send_telegram_alert("critical", critUid)
    /\ \E r \in Outcomes :
          /\ escaped' = (r = "raise")
          /\ sinkErrors' = IF r = "raise" THEN sinkErrors + 1 ELSE sinkErrors
    /\ pc' = "close"
    /\ UNCHANGED << config, outbound, uids, fetchIdx, uids_and_emails, idx, attachments,
                    pending, imapOpen, smtpOpen, seen, sent, sendFailed, storeOp,
                    passOps, msgOps, searchResult, critUid, imapResult,
                    fetchOk >>

\* the outer finally: imap_conn.close(); an exception skips the logout
imap_close ==
    /\ pc = "close"
    /\ passOps' = CountPassOp("close")
    /\ \E r \in Outcomes : pc' = IF r = "return" THEN "logout" ELSE "done"
    /\ UNCHANGED << config, outbound, uids, fetchIdx, uids_and_emails, idx, attachments,
                    pending, escaped, imapOpen, smtpOpen, seen, sent, sendFailed,
                    storeOp, msgOps, notifs, searchResult, critUid, imapResult, sinkErrors,
                    fetchOk >>

\* imap_conn.logout(): shuts the connection down when the command completes
imap_logout ==
    /\ pc = "logout"
    /\ passOps' = CountPassOp("logout")
    /\ \E r \in Outcomes : imapOpen' = IF r = "return" THEN imapOpen - 1 ELSE imapOpen
    /\ pc' = "done"
    /\ UNCHANGED << config, outbound, uids, fetchIdx, uids_and_emails, idx, attachments,
                    pending, escaped, smtpOpen, seen, sent, sendFailed, storeOp,
                    msgOps, notifs, searchResult, critUid, imapResult, sinkErrors,
                    fetchOk >>

Next ==
    \/ connect_imap
    \/ alert_imap_failed
    \/ select_inbox
    \/ search_unseen
    \/ fetch_message
    \/ check_candidates
    \/ alert_no_messages
    \/ process_candidate
    \/ alert_no_attachment
    \/ connect_smtp
    \/ alert_smtp_failed
    \/ send_email_with_attachment
    \/ alert_success
    \/ store_flag
    \/ alert_failed
    \/ smtp_quit
    \/ alert_critical
    \/ imap_close
    \/ imap_logout

Spec == Init /\ [][Next]_vars

\* The pass is one sequential thread and every call it makes returns or
\* raises, so a step that is possible is eventually taken.
FairSpec == Spec /\ WF_vars(Next)

\* ------------------------------------- composition of the outbound message

\* part.is_multipart()
is_multipart(part) == part.ctype \in { "multipart/mixed", "multipart/alternative" }

\* msg.walk(): the part itself, then its subparts, depth first
RECURSIVE walk(_)
RECURSIVE WalkAll(_)
walk(part) == IF is_multipart(part) THEN <<part>> \o WalkAll(part.parts) ELSE <<part>>

WalkAll(parts) == IF parts = <<>> THEN <<>> ELSE walk(Head(parts)) \o WalkAll(Tail(parts))

\* the for loop over msg.walk(): "body" is original_body so far
RECURSIVE BodyOfParts(_, _)
BodyOfParts(parts, body) ==
    IF parts = <<>> THEN body
    ELSE IF Head(parts).ctype = "text/plain" THEN Head(parts).content
    ELSE IF Head(parts).ctype = "text/html" /\ body = ""
         THEN BodyOfParts(Tail(parts), Head(parts).content)
    ELSE BodyOfParts(Tail(parts), body)

\* the body extraction of the loop body
extract_body(root) ==
    IF is_multipart(root) THEN BodyOfParts(walk(root), "") ELSE root.content

\* msg.get("Subject", "[No Subject]")
get_subject(m) == IF m.subject = <<>> THEN "[No Subject]" ELSE Head(m.subject)

\* subject= and body= of the call of send_email_with_attachment
DefaultSubject == "[Auto] Forwarded attachment"

DefaultBody == "[file forwarded automatically from the Beget server]"

\* final_subject; an optional argument is <<>> for None and <<value>> otherwise
FinalSubject(same, original, subject) ==
    IF same /\ original # <<>> /\ Head(original) # "" THEN Head(original) ELSE subject

\* FinalBody testing the truth value of original_body as FinalSubject does
FinalBody_by_truth_value(same, original, body) ==
    IF same /\ original # <<>> /\ Head(original) # "" THEN Head(original) ELSE body

\* final_body
FinalBody(same, original, body) ==
    IF same /\ original # <<>> THEN Head(original) ELSE body

\* the loop body up to the attachments: parse, subject, body
parse_message ==
    /\ pc = "parse_message"
    /\ original_subject' = << get_subject(parsed_msg) >>
    /\ original_body' = << extract_body(parsed_msg.root) >>
    /\ pc' = "build_message"
    /\ UNCHANGED << config, parsed_msg, final_subject, final_body, uids, fetchIdx,
                    fetchOk, uids_and_emails, idx, attachments, pending, escaped,
                    imapOpen, smtpOpen, seen, sent, sendFailed, storeOp, passOps,
                    msgOps, notifs, searchResult, imapResult, sinkErrors, critUid >>

\* send_email_with_attachment up to msg.set_content
build_message ==
    /\ pc = "build_message"
    /\ final_subject' = << FinalSubject(same_subject, original_subject, DefaultSubject) >>
    /\ final_body' = << FinalBody(same_body, original_body, DefaultBody) >>
    /\ pc' = "built"
    /\ UNCHANGED << config, parsed_msg, original_subject, original_body, uids,
                    fetchIdx, fetchOk, uids_and_emails, idx, attachments, pending,
                    escaped, imapOpen, smtpOpen, seen, sent, sendFailed, storeOp,
                    passOps, msgOps, notifs, searchResult, imapResult, sinkErrors,
                    critUid >>

\* one message about to be forwarded, under any subject and body policy
InitCompose ==
    /\ pc = "parse_message"
    /\ parsed_msg \in ParsedMessages
    /\ same_subject \in BOOLEAN
    /\ same_body \in BOOLEAN
    /\ original_subject = <<>>
    /\ original_body = <<>>
    /\ final_subject = <<>>
    /\ final_body = <<>>
    /\ inbox = <<>>
    /\ expected_sender = <<>>
    /\ attachment_pattern = <<>>
    /\ set_unread = FALSE
    /\ uids = <<>>
    /\ fetchIdx = 0
    /\ fetchOk = {}
    /\ uids_and_emails = <<>>
    /\ idx = 0
    /\ attachments = <<>>
    /\ pending = FALSE
    /\ escaped = FALSE
    /\ imapOpen = 0
    /\ smtpOpen = 0
    /\ seen = [u \in UidRange |-> FALSE]
    /\ sent = {}
    /\ sendFailed = {}
    /\ storeOp = [u \in UidRange |-> <<>>]
    /\ passOps = [o \in PassOps |-> 0]
    /\ msgOps = [o \in MsgOps, u \in UidRange |-> 0]
    /\ notifs = [k \in NotifKinds, u \in 0..MaxMsgs |-> 0]
    /\ searchResult = "none"
    /\ imapResult = "none"
    /\ sinkErrors = 0
    /\ critUid = 0

NextCompose ==
    \/ parse_message
    \/ build_message

ComposeSpec == InitCompose /\ [][NextCompose]_vars

\* ================================================================ claims

Done == pc = "done"

Candidates == { uids_and_emails[i] : i \in 1..Len(uids_and_emails) }

\* C1: when the pass ends, every candidate of the list has been processed,
\* whatever was raised while an earlier candidate was processed.
FailureIsolation ==
    (Done /\ imapResult = "ok" /\ Len(uids_and_emails) >= 2)
        => \A u \in Candidates : msgOps["process", u] = 1

\* C2: after a successful mailbox connect the pass ends only with the mailbox
\* release attempted, it is attempted exactly once, and no per-candidate
\* operation or notification follows it.
MailboxReleaseAttempted ==
    /\ []((Done /\ imapResult = "ok") => passOps["close"] = 1)
    /\ [](passOps["close"] <= 1)
    /\ [][passOps["close"] >= 1 => (msgOps' = msgOps /\ notifs' = notifs)]_vars

ReleasedAfterLoopException ==
    /\ Done
    /\ imapResult = "ok"
    /\ critUid > 0
    /\ notifs["critical", critUid] = 1
    /\ passOps["close"] = 1

\* C3: when the pass moves to the next candidate or ends, no transport
\* connection that was established is left without a quit.
TransportReleased ==
    pc \in { "process", "close", "logout", "done" } => smtpOpen = 0

\* C4: a candidate without matching attachments gets no transport connect, no
\* send, no store, exactly one "no attachment" notification, and the pass goes
\* on to the next candidate.
NoAttachmentSkipContinues ==
    Done =>
        \A i \in 1..Len(uids_and_emails) :
            LET u == uids_and_emails[i] IN
            (/\ extract_attachments(inbox[u].parts, attachment_pattern) = <<>>
             /\ notifs["no_attachment", u] >= 1)
                => /\ msgOps["smtp_connect", u] = 0
                   /\ msgOps["send", u] = 0
                   /\ msgOps["store", u] = 0
                   /\ notifs["no_attachment", u] = 1
                   /\ i < Len(uids_and_emails)
                         => msgOps["process", uids_and_emails[i + 1]] = 1

\* C5: a candidate whose send raised gets a failure notification and no store.
SendFailureNotifiedNoStore ==
    \A u \in sendFailed :
        /\ msgOps["store", u] = 0
        /\ storeOp[u] = <<>>
        /\ notifs["success", u] = 0
        /\ notifs["failed", u] = IF pc = "alert_failed" /\ Cur = u THEN 0 ELSE 1

SendFailedAndReported ==
    /\ Done
    /\ \E u \in sendFailed : notifs["failed", u] = 1 /\ msgOps["quit", u] = 1

\* C6: a candidate whose send succeeded gets the flag operation of the
\* set_unread policy, and ends the pass read (set_unread false) or unread
\* (set_unread true).
SeenFlagFollowsPolicy ==
    Done => \A u \in sent : storeOp[u] = <<FlagOp>> /\ seen[u] = ~set_unread

\* C7: about a candidate whose send succeeded exactly one notification is
\* issued, the success one.
DeliveredOnlySuccessNotified ==
    Done =>
        \A u \in sent :
            \A k \in NotifKinds : notifs[k, u] = IF k = "success" THEN 1 ELSE 0

\* C8: after an UNSEEN search without results there is no fetch, transport
\* connect, send or store, and the "no messages" notification is issued once,
\* before the mailbox release.
EmptySearchOnlyNotifies ==
    searchResult = "empty" =>
        /\ \A o \in MsgOps, u \in UidRange : msgOps[o, u] = 0
        /\ notifs["no_messages", 0] =
              IF pc \in { "listed", "alert_no_messages" } THEN 0 ELSE 1
        /\ passOps["close"] >= 1 => notifs["no_messages", 0] = 1

EmptySearchReported ==
    /\ Done
    /\ searchResult = "empty"
    /\ notifs["no_messages", 0] = 1
    /\ passOps["close"] = 1

\* two addresses are equal up to the case of their letters
SameIgnoringCase(a, b) ==
    /\ Len(a) = Len(b)
    /\ \A i \in 1..Len(a) :
          \/ a[i] = b[i]
          \/ a[i] \in DOMAIN LowerMap /\ LowerMap[a[i]] = b[i]
          \/ b[i] \in DOMAIN LowerMap /\ LowerMap[b[i]] = a[i]

\* a filter is configured and the From address of message u differs from it
DiffersFromExpected(u) ==
    /\ expected_sender # <<>>
    /\ ~SameIgnoringCase(parseaddr(inbox[u].from), expected_sender)

AllDiffer == \A u \in 1..Len(inbox) : DiffersFromExpected(u)

\* such a message is no candidate, is never processed or forwarded, and no
\* notification is about it
DifferingSendersExcluded ==
    \A u \in 1..Len(inbox) :
        DiffersFromExpected(u) =>
            /\ u \notin Candidates
            /\ \A o \in MsgOps \ { "fetch" } : msgOps[o, u] = 0
            /\ \A k \in NotifKinds : notifs[k, u] = 0

\* C9 as stated: messages from another sender are excluded, and when every
\* unseen message is excluded the one "no messages" notification is the only
\* notification of the pass.
SenderFilterOnlyAggregateNotice ==
    /\ DifferingSendersExcluded
    /\ (Done /\ searchResult = "found" /\ AllDiffer) =>
          \A k \in NotifKinds, u \in 0..MaxMsgs :
              notifs[k, u] = IF k = "no_messages" /\ u = 0 THEN 1 ELSE 0

\* C9 amended: as above, except that a critical-error notification follows
\* the "no messages" one when the notification sink raised on it.
SenderFilterExcludes ==
    /\ DifferingSendersExcluded
    /\ (Done /\ searchResult = "found" /\ AllDiffer) =>
          \A k \in NotifKinds, u \in 0..MaxMsgs :
              notifs[k, u] =
                  IF k = "no_messages" /\ u = 0 THEN 1
                  ELSE IF k = "critical" /\ u = 0 /\ sinkErrors >= 1 THEN 1
                  ELSE 0

AllSendersExcluded ==
    /\ Done
    /\ searchResult = "found"
    /\ AllDiffer
    /\ \A u \in 1..Len(inbox) : msgOps["fetch", u] = 1 /\ seen[u]
    /\ notifs["no_messages", 0] = 1

\* C10: after a failed mailbox connect or login the connection-failure
\* notification is the only notification, and no select, search, fetch,
\* transport connect, send, store or mailbox release is made.
ImapFailureAborts ==
    imapResult \in { "connect_failed", "login_failed" } =>
        /\ pc \in { "alert_imap_failed", "done" }
        /\ \A k \in NotifKinds, u \in 0..MaxMsgs :
              notifs[k, u] =
                  IF k = "imap_failed" /\ u = 0 /\ pc = "done" THEN 1 ELSE 0
        /\ \A o \in PassOps \ { "imap_connect" } : passOps[o] = 0
        /\ \A o \in MsgOps, u \in UidRange : msgOps[o, u] = 0

ImapLoginFailedReported ==
    /\ Done
    /\ imapResult = "login_failed"
    /\ notifs["imap_failed", 0] = 1

\* C11: a candidate whose transport connect failed gets one failure
\* notification, no send and no store, and the pass goes on to the next
\* candidate.
SmtpFailureSkipContinues ==
    Done =>
        \A i \in 1..Len(uids_and_emails) :
            LET u == uids_and_emails[i] IN
            notifs["smtp_failed", u] >= 1
                => /\ notifs["smtp_failed", u] = 1
                   /\ msgOps["send", u] = 0
                   /\ msgOps["store", u] = 0
                   /\ i < Len(uids_and_emails)
                         => msgOps["process", uids_and_emails[i + 1]] = 1

\* C12: within a pass the mailbox connect, select and search are made at most
\* once, and for each message the fetch, the transport connect, the send and
\* the store are made at most once.
NoRetry ==
    /\ \A o \in PassOps : passOps[o] <= 1
    /\ \A o \in MsgOps, u \in UidRange : msgOps[o, u] <= 1
    /\ \A u \in UidRange : Len(storeOp[u]) <= 1

SendFailedOnceNotRetried ==
    /\ Done
    /\ \E u \in sendFailed :
          /\ msgOps["smtp_connect", u] = 1
          /\ msgOps["send", u] = 1
          /\ notifs["failed", u] = 1
          /\ u \notin sent

\* C13: at most one mailbox session and one transport session are open, and
\* no transport session is open when the next candidate begins.
OneSessionAtATime ==
    /\ imapOpen <= 1
    /\ smtpOpen <= 1
    /\ pc \in { "process", "alert_no_attachment", "smtp_connect" } => smtpOpen = 0

\* C14: a failed select or search is not reported as an empty mailbox: the
\* "no messages" notification is not issued for it.
ListingFailureNotEmpty ==
    searchResult = "failed" => notifs["no_messages", 0] = 0

\* C17: a store is issued on a message only after its send succeeded in this
\* pass; selecting, searching, fetching and filtering issue none.
StoreOnlyAfterSend ==
    /\ \A u \in UidRange : (msgOps["store", u] > 0 \/ storeOp[u] # <<>>) => u \in sent
    /\ pc \in { "start", "select", "search", "fetch", "listed" }
          => \A u \in UidRange : msgOps["store", u] = 0 /\ storeOp[u] = <<>>

StoredOneSkippedOther ==
    /\ Done
    /\ \E u \in sent : msgOps["store", u] = 1
    /\ \E u \in 1..Len(inbox) : msgOps["fetch", u] = 1 /\ u \notin sent /\ storeOp[u] = <<>>

\* the message u is to be yielded: fetched with a body, and not excluded by
\* the sender filter
ShouldYield(u) == u \in fetchOk /\ ~DiffersFromExpected(u)

\* C18: a fetch that fails for one identifier skips that identifier only:
\* every identifier of the search is fetched, and the fetched messages that
\* pass the sender filter are yielded in the order of the search.
FetchSkipsOnlyFailures ==
    searchResult = "found" =>
        LET visited == IF pc = "fetch" THEN SubSeq(uids, 1, fetchIdx - 1) ELSE uids IN
        /\ \A i \in 1..Len(visited) : msgOps["fetch", visited[i]] = 1
        /\ uids_and_emails = SelectSeq(visited, ShouldYield)

YieldedAfterFailedFetch ==
    /\ pc = "listed"
    /\ Len(uids) >= 2
    /\ uids[1] \notin fetchOk
    /\ uids_and_emails # <<>>
    /\ uids_and_emails[1] = uids[2]

\* C20: after a successful mailbox connect the session is logged out before
\* the pass ends, also when the close before it failed.
AlwaysLoggedOut ==
    (Done /\ imapResult = "ok") => passOps["logout"] = 1

\* C19: every pass reaches its terminal state, and after a successful mailbox
\* connect it reaches it only from the mailbox release step.
PassTerminates ==
    /\ <>Done
    /\ [][(pc # "done" /\ pc' = "done" /\ imapResult = "ok")
             => (pc \in { "close", "logout" } /\ passOps'["close"] = 1)]_vars

TerminatedAfterEscapedError ==
    /\ Done
    /\ imapResult = "ok"
    /\ escaped
    /\ passOps["close"] = 1
    /\ passOps["logout"] = 1

Built == pc = "built"

\* the depth-first sequence of the parts of a message below its root
PartsBelow(root) == Tail(walk(root))

\* the contents of the parts of one content type, in depth-first order
RECURSIVE ContentsOf(_, _)
ContentsOf(parts, ctype) ==
    IF parts = <<>> THEN <<>>
    ELSE IF Head(parts).ctype = ctype
         THEN <<Head(parts).content>> \o ContentsOf(Tail(parts), ctype)
         ELSE ContentsOf(Tail(parts), ctype)

\* C15 as stated: the outbound subject is the subject of the message if
\* same_subject is set and the message has one, else the default subject; the
\* outbound body is the body of the message if same_body is set, else the
\* default body.
EffectiveSubjectAndBody ==
    Built =>
        /\ final_subject =
              << IF same_subject /\ parsed_msg.subject # <<>>
                 THEN Head(parsed_msg.subject) ELSE DefaultSubject >>
        /\ final_body =
              << IF same_body /\ original_body # <<>>
                 THEN Head(original_body) ELSE DefaultBody >>

\* C15 amended: the outbound subject is the subject the orchestrator passes
\* (the Subject header, or "[No Subject]" for a message without one) if
\* same_subject is set and that subject is not empty, else the default subject;
\* the body is as stated.
EffectiveSubjectNonEmpty ==
    Built =>
        /\ final_subject =
              << IF ~same_subject THEN DefaultSubject
                 ELSE IF parsed_msg.subject = <<>> THEN "[No Subject]"
                 ELSE IF Head(parsed_msg.subject) = "" THEN DefaultSubject
                 ELSE Head(parsed_msg.subject) >>
        /\ final_body =
              << IF same_body /\ original_body # <<>>
                 THEN Head(original_body) ELSE DefaultBody >>

EmptyBodyKeptEmptySubjectReplaced ==
    /\ Built
    /\ same_subject
    /\ same_body
    /\ parsed_msg.subject = <<"">>
    /\ original_body = <<"">>
    /\ final_body = <<"">>
    /\ final_subject = <<DefaultSubject>>

\* C16: the body of a multipart message is the content of its first
\* text/plain part if it has one, else the content of its first text/html
\* part if it has one, else empty; the body of any other message is its
\* payload.
BodyIsFirstPlainElseFirstHtml ==
    Built =>
        LET root == parsed_msg.root
            plain == ContentsOf(PartsBelow(root), "text/plain")
            html == ContentsOf(PartsBelow(root), "text/html")
        IN  original_body =
                << IF ~is_multipart(root) THEN root.content
                   ELSE IF plain # <<>> THEN Head(plain)
                   ELSE IF html # <<>> THEN Head(html)
                   ELSE "" >>

====
